---- MODULE Spec2Model ----
(***************************************************************************)
(* Translation catalog consistency tooling of departure-monitor:           *)
(*   check_translation_consistency.py  (key sets, duplicates, structural   *)
(*                                      diff, empty values, verdict)       *)
(*   validate_import_keys.py           (required-key audit)                *)
(*                                                                         *)
(* A Python str is a sequence of characters, so that joining a key path    *)
(* with "." and splitting it again are real conversions.  A JSON value is  *)
(* a record [t, v]: t is the Python type, v the payload.  A dict keeps its *)
(* insertion order: v is the sequence of its items [k, val].               *)
(***************************************************************************)
EXTENDS Integers, Sequences, FiniteSets

VARIABLES
    \* check_translation_consistency.py, main()
    pc, de_file, en_file, de_data, en_data, de_keys, en_keys,
    de_duplicates, en_duplicates, found_keys,
    only_de, only_en, common_keys, de_empty, en_empty,
    issues, verdict, report, exit_code,
    \* validate_import_keys.py, main() and check_translation_file()
    a_pc, de_error, en_error, de_found, de_missing, en_found, en_missing,
    both_found, a_only_de, a_only_en, both_missing,
    \* the pure functions applied to one catalog
    f_pc, tree, keys, duplicates, empty_values, key_index, value

ccVars == <<pc, de_file, en_file, de_data, en_data, de_keys, en_keys,
            de_duplicates, en_duplicates, found_keys,
            only_de, only_en, common_keys, de_empty, en_empty,
            issues, verdict, report, exit_code>>

auditVars == <<a_pc, de_error, en_error, de_found, de_missing,
               en_found, en_missing, both_found, a_only_de, a_only_en,
               both_missing>>

fnVars == <<f_pc, tree, keys, duplicates, empty_values, key_index, value>>

vars == <<ccVars, auditVars, fnVars>>

(***************************************************************************)
(* Bounds of the model.                                                    *)
(***************************************************************************)
\* entries (keys at any depth) of the two catalog files of one run together
MaxNodes == 4
\* entries of a catalog that is examined on its own
MaxTreeNodes == 3

(***************************************************************************)
(* Python and JSON values.                                                 *)
(***************************************************************************)
Str(s) == [t |-> "str", v |-> s]
Dict(items) == [t |-> "dict", v |-> items]
Num == [t |-> "int", v |-> <<"0">>]
None == [t |-> "none", v |-> <<>>]
\* what open()/json.load() raise on: a missing, unreadable or malformed file
Unreadable == [t |-> "unreadable", v |-> <<>>]

isinstance(val, type) == val.t = type

\* keys a catalog entry may carry: "a", "b" and "a.b" (JSON allows a "."
\* inside a key)
Keys == { <<"a">>, <<"b">>, <<"a", ".", "b">> }

\* values without entries below them: "", " ", "x", 0, null and {}
LeafValues == { Str(<<>>), Str(<<" ">>), Str(<<"x">>), Num, None, Dict(<<>>) }
\* leaves of the catalogs of a run of the consistency check: "", "x"
PairLeafValues == { Str(<<>>), Str(<<"x">>) }
\* leaves of the catalogs of a run of the required-key audit: "x", null
AuditLeafValues == { Str(<<"x">>), None }

RECURSIVE Forests(_, _, _)
\* the item sequences json.load can build with n entries in all: the first
\* item takes m of them (itself and what lies below it), the keys of one dict
\* are distinct, in any order
Forests(n, ks, leaves) ==
    IF n = 0 THEN { <<>> }
    ELSE UNION { { <<[k |-> c[1], val |-> c[2]]>> \o c[3] :
                     c \in { x \in ks
                                   \X (IF m = 1
                                       THEN leaves
                                       ELSE { Dict(f) : f \in Forests(m - 1, ks, leaves) })
                                   \X Forests(n - m, ks, leaves) :
                             \A i \in DOMAIN x[3] : x[3][i].k # x[1] } } :
                 m \in 1..n }

Catalogs(n, ks, leaves) == { Dict(f) : f \in Forests(n, ks, leaves) }

(***************************************************************************)
(* Sequence helpers.                                                       *)
(***************************************************************************)
ToSet(seq) == { seq[i] : i \in DOMAIN seq }
Count(seq, x) == Cardinality({ i \in DOMAIN seq : seq[i] = x })

\* f"{prefix}.{key}" if prefix else key
current_key(prefix, key) == IF prefix # <<>> THEN prefix \o <<".">> \o key ELSE key

(***************************************************************************)
(* check_translation_consistency.py                                       *)
(***************************************************************************)
RECURSIVE get_all_keys_items(_, _)
\* the loop of get_all_keys over data.items()
get_all_keys_items(items, prefix) ==
    IF items = <<>> THEN <<>>
    ELSE LET cur == current_key(prefix, Head(items).k)
             val == Head(items).val
         IN  <<cur>>
             \o (IF isinstance(val, "dict") THEN get_all_keys_items(val.v, cur) ELSE <<>>)
             \o get_all_keys_items(Tail(items), prefix)

get_all_keys(d, prefix) ==
    IF isinstance(d, "dict") THEN get_all_keys_items(d.v, prefix) ELSE <<>>

\* the table a mutable default argument would keep between calls
NewFoundKeysShared == found_keys

\* found_keys = {} of a top-level call (found_keys is None)
NewFoundKeys == {}

RECURSIVE check_duplicate_keys_items(_, _, _)
\* the loop of check_duplicate_keys; acc is [duplicates, found_keys], the dict
\* found_keys being the one object every recursive call mutates
check_duplicate_keys_items(items, prefix, acc) ==
    IF items = <<>> THEN acc
    ELSE LET cur == current_key(prefix, Head(items).k)
             val == Head(items).val
             acc1 == IF cur \in acc.found_keys
                     THEN [acc EXCEPT !.duplicates = Append(@, cur)]
                     ELSE [acc EXCEPT !.found_keys = @ \cup { cur }]
             acc2 == IF isinstance(val, "dict")
                     THEN check_duplicate_keys_items(val.v, cur, acc1)
                     ELSE acc1
         IN  check_duplicate_keys_items(Tail(items), prefix, acc2)

check_duplicate_keys(d, prefix, table) ==
    IF isinstance(d, "dict")
    THEN check_duplicate_keys_items(d.v, prefix, [duplicates |-> <<>>, found_keys |-> table])
    ELSE [duplicates |-> <<>>, found_keys |-> table]

\* a strip() that strips nothing
stripNothing(s) == s

RECURSIVE lstrip(_)
lstrip(s) == IF s # <<>> /\ Head(s) = " " THEN lstrip(Tail(s)) ELSE s
RECURSIVE rstrip(_)
rstrip(s) == IF s # <<>> /\ s[Len(s)] = " " THEN rstrip(SubSeq(s, 1, Len(s) - 1)) ELSE s
\* str.strip()
strip(s) == rstrip(lstrip(s))

RECURSIVE check_empty_values_items(_, _)
check_empty_values_items(items, prefix) ==
    IF items = <<>> THEN <<>>
    ELSE LET cur == current_key(prefix, Head(items).k)
             val == Head(items).val
         IN  (IF isinstance(val, "dict") THEN check_empty_values_items(val.v, cur)
              ELSE IF isinstance(val, "str") /\ strip(val.v) = <<>> THEN <<cur>>
              ELSE <<>>)
             \o check_empty_values_items(Tail(items), prefix)

check_empty_values(d, prefix) ==
    IF isinstance(d, "dict") THEN check_empty_values_items(d.v, prefix) ELSE <<>>

(***************************************************************************)
(* validate_import_keys.py                                                 *)
(***************************************************************************)
\* the list of required key paths, instantiated over Keys: "a.b" and "b"
required_keys == << <<"a", ".", "b">>, <<"b">> >>

RECURSIVE split(_)
\* str.split('.')
split(s) ==
    IF \A i \in DOMAIN s : s[i] # "." THEN <<s>>
    ELSE LET i == CHOOSE j \in DOMAIN s : s[j] = "." /\ \A h \in 1..(j - 1) : s[h] # "."
         IN  <<SubSeq(s, 1, i - 1)>> \o split(SubSeq(s, i + 1, Len(s)))

\* key in current
contains(d, key) == \E i \in DOMAIN d.v : d.v[i].k = key
\* current[key]
getitem(d, key) == d.v[CHOOSE i \in DOMAIN d.v : d.v[i].k = key].val

RECURSIVE get_nested_value_loop(_, _)
\* the for loop of get_nested_value
get_nested_value_loop(current, ks) ==
    IF ks = <<>> THEN current
    ELSE IF isinstance(current, "dict") /\ contains(current, Head(ks))
         THEN get_nested_value_loop(getitem(current, Head(ks)), Tail(ks))
         ELSE None

get_nested_value(d, key_path) == get_nested_value_loop(d, split(key_path))

\* found_keys, missing_keys of check_translation_file; error is the diagnostic
\* of the except branch
check_translation_file(file) ==
    IF file = Unreadable
    THEN [found_keys |-> <<>>, missing_keys |-> required_keys, error |-> TRUE]
    ELSE [found_keys |-> SelectSeq(required_keys,
                                   LAMBDA key : get_nested_value(file, key) # None),
          missing_keys |-> SelectSeq(required_keys,
                                     LAMBDA key : get_nested_value(file, key) = None),
          error |-> FALSE]

(***************************************************************************)
(* check_translation_consistency.py, load and verdict                      *)
(***************************************************************************)
\* on a failure both results are replaced by empty catalogs
load_translationsEmpty(de_f, en_f) ==
    IF de_f = Unreadable \/ en_f = Unreadable
    THEN [de |-> Dict(<<>>), en |-> Dict(<<>>), error |-> TRUE]
    ELSE [de |-> de_f, en |-> en_f, error |-> FALSE]

\* json.load of both files inside one try; error is the printed diagnostic
load_translations(de_f, en_f) ==
    IF de_f = Unreadable \/ en_f = Unreadable
    THEN [de |-> None, en |-> None, error |-> TRUE]
    ELSE [de |-> de_f, en |-> en_f, error |-> FALSE]

\* only_en taken the same way round as only_de
structural_diffSwapped(dk, ek) ==
    [only_de |-> dk \ ek, only_en |-> dk \ ek, common_keys |-> dk \cap ek]

\* only_de, only_en, common_keys of main
structural_diff(dk, ek) ==
    [only_de |-> dk \ ek, only_en |-> ek \ dk, common_keys |-> dk \cap ek]

\* the list without the entry for en_empty
collect_issuesNoEnEmpty(dd, ed, od, oe, dem, eem) ==
    (IF dd # <<>> THEN <<"de_duplicates">> ELSE <<>>)
    \o (IF ed # <<>> THEN <<"en_duplicates">> ELSE <<>>)
    \o (IF od # {} THEN <<"only_de">> ELSE <<>>)
    \o (IF oe # {} THEN <<"only_en">> ELSE <<>>)
    \o (IF dem # <<>> THEN <<"de_empty">> ELSE <<>>)

\* issues of main: one entry per non-empty finding list
collect_issues(dd, ed, od, oe, dem, eem) ==
    (IF dd # <<>> THEN <<"de_duplicates">> ELSE <<>>)
    \o (IF ed # <<>> THEN <<"en_duplicates">> ELSE <<>>)
    \o (IF od # {} THEN <<"only_de">> ELSE <<>>)
    \o (IF oe # {} THEN <<"only_en">> ELSE <<>>)
    \o (IF dem # <<>> THEN <<"de_empty">> ELSE <<>>)
    \o (IF eem # <<>> THEN <<"en_empty">> ELSE <<>>)

(***************************************************************************)
(* main() of check_translation_consistency.py, statement group by          *)
(* statement group.  report lists the sections printed so far.             *)
(***************************************************************************)
\* a catalog file with n entries; a file can also be missing or malformed
FileContents(n, ks, leaves) ==
    Catalogs(n, ks, leaves) \cup (IF n = 0 THEN { Unreadable } ELSE {})

auditIdle ==
    /\ a_pc = "idle" /\ de_error = FALSE /\ en_error = FALSE
    /\ de_found = <<>> /\ de_missing = <<>> /\ en_found = <<>> /\ en_missing = <<>>
    /\ both_found = {} /\ a_only_de = {} /\ a_only_en = {} /\ both_missing = {}

fnIdle ==
    /\ f_pc = "idle" /\ tree = None /\ keys = <<>> /\ duplicates = <<>>
    /\ empty_values = <<>> /\ key_index = 0 /\ value = None

ccStart ==
    /\ pc = "start"
    /\ de_data = None /\ en_data = None
    /\ de_keys = {} /\ en_keys = {}
    /\ de_duplicates = <<>> /\ en_duplicates = <<>> /\ found_keys = {}
    /\ only_de = {} /\ only_en = {} /\ common_keys = {}
    /\ de_empty = <<>> /\ en_empty = <<>>
    /\ issues = <<>> /\ verdict = "none" /\ report = <<>> /\ exit_code = 0

Init ==
    /\ \E n1 \in 0..MaxNodes : \E n2 \in 0..(MaxNodes - n1) :
          /\ de_file \in FileContents(n1, Keys, PairLeafValues)
          /\ en_file \in FileContents(n2, Keys, PairLeafValues)
    /\ ccStart
    /\ auditIdle
    /\ fnIdle

\* lines 55-60: header, load_translations, early return
Load ==
    /\ pc = "start"
    /\ LET r == load_translations(de_file, en_file)
       IN  /\ de_data' = r.de
           /\ en_data' = r.en
           /\ report' = <<"header">> \o (IF r.error THEN <<"load_error">> ELSE <<>>)
           /\ pc' = IF r.de = None \/ r.en = None THEN "returned" ELSE "loaded"
    /\ UNCHANGED <<de_file, en_file, de_keys, en_keys, de_duplicates, en_duplicates,
                   found_keys, only_de, only_en, common_keys, de_empty, en_empty,
                   issues, verdict, exit_code>>
    /\ UNCHANGED <<auditVars, fnVars>>

\* lines 62-67
ExtractKeys ==
    /\ pc = "loaded"
    /\ de_keys' = ToSet(get_all_keys(de_data, <<>>))
    /\ en_keys' = ToSet(get_all_keys(en_data, <<>>))
    /\ report' = Append(report, "key_counts")
    /\ pc' = "keys"
    /\ UNCHANGED <<de_file, en_file, de_data, en_data, de_duplicates, en_duplicates,
                   found_keys, only_de, only_en, common_keys, de_empty, en_empty,
                   issues, verdict, exit_code>>
    /\ UNCHANGED <<auditVars, fnVars>>

\* line 71
CheckDuplicatesDe ==
    /\ pc = "keys"
    /\ LET r == check_duplicate_keys(de_data, <<>>, NewFoundKeys)
       IN  /\ de_duplicates' = r.duplicates
           /\ found_keys' = r.found_keys
    /\ pc' = "dup_de"
    /\ UNCHANGED <<de_file, en_file, de_data, en_data, de_keys, en_keys, en_duplicates,
                   only_de, only_en, common_keys, de_empty, en_empty,
                   issues, verdict, report, exit_code>>
    /\ UNCHANGED <<auditVars, fnVars>>

\* lines 72-86
CheckDuplicatesEn ==
    /\ pc = "dup_de"
    /\ LET r == check_duplicate_keys(en_data, <<>>, NewFoundKeys)
       IN  /\ en_duplicates' = r.duplicates
           /\ found_keys' = r.found_keys
    /\ report' = Append(report, "duplicates")
    /\ pc' = "dup_en"
    /\ UNCHANGED <<de_file, en_file, de_data, en_data, de_keys, en_keys, de_duplicates,
                   only_de, only_en, common_keys, de_empty, en_empty,
                   issues, verdict, exit_code>>
    /\ UNCHANGED <<auditVars, fnVars>>

\* lines 88-108
StructuralConsistency ==
    /\ pc = "dup_en"
    /\ LET r == structural_diff(de_keys, en_keys)
       IN  /\ only_de' = r.only_de
           /\ only_en' = r.only_en
           /\ common_keys' = r.common_keys
    /\ report' = Append(report, "structure")
    /\ pc' = "diff"
    /\ UNCHANGED <<de_file, en_file, de_data, en_data, de_keys, en_keys,
                   de_duplicates, en_duplicates, found_keys, de_empty, en_empty,
                   issues, verdict, exit_code>>
    /\ UNCHANGED <<auditVars, fnVars>>

\* lines 110-142
CheckEmptyValues ==
    /\ pc = "diff"
    /\ de_empty' = check_empty_values(de_data, <<>>)
    /\ en_empty' = check_empty_values(en_data, <<>>)
    /\ report' = Append(report, "empty_values")
    /\ pc' = "empty"
    /\ UNCHANGED <<de_file, en_file, de_data, en_data, de_keys, en_keys,
                   de_duplicates, en_duplicates, found_keys,
                   only_de, only_en, common_keys, issues, verdict, exit_code>>
    /\ UNCHANGED <<auditVars, fnVars>>

\* lines 144-167
Gesamtbewertung ==
    /\ pc = "empty"
    /\ issues' = collect_issues(de_duplicates, en_duplicates, only_de, only_en,
                                de_empty, en_empty)
    /\ verdict' = IF issues' # <<>> THEN "fail" ELSE "pass"
    /\ report' = Append(report, "verdict")
    /\ pc' = "returned"
    /\ UNCHANGED <<de_file, en_file, de_data, en_data, de_keys, en_keys,
                   de_duplicates, en_duplicates, found_keys,
                   only_de, only_en, common_keys, de_empty, en_empty, exit_code>>
    /\ UNCHANGED <<auditVars, fnVars>>

\* lines 169-170: main() has returned, nothing calls sys.exit
Exit ==
    /\ pc = "returned"
    /\ exit_code' = 0
    /\ pc' = "exited"
    /\ UNCHANGED <<de_file, en_file, de_data, en_data, de_keys, en_keys,
                   de_duplicates, en_duplicates, found_keys,
                   only_de, only_en, common_keys, de_empty, en_empty,
                   issues, verdict, report>>
    /\ UNCHANGED <<auditVars, fnVars>>

Next ==
    \/ Load
    \/ ExtractKeys
    \/ CheckDuplicatesDe
    \/ CheckDuplicatesEn
    \/ StructuralConsistency
    \/ CheckEmptyValues
    \/ Gesamtbewertung
    \/ Exit

Spec == Init /\ [][Next]_vars

(***************************************************************************)
(* main() of validate_import_keys.py, which reads the same two files.      *)
(***************************************************************************)
ccIdle ==
    /\ pc = "idle"
    /\ de_data = None /\ en_data = None
    /\ de_keys = {} /\ en_keys = {}
    /\ de_duplicates = <<>> /\ en_duplicates = <<>> /\ found_keys = {}
    /\ only_de = {} /\ only_en = {} /\ common_keys = {}
    /\ de_empty = <<>> /\ en_empty = <<>>
    /\ issues = <<>> /\ verdict = "none" /\ report = <<>> /\ exit_code = 0

InitAudit ==
    /\ \E n1 \in 0..MaxNodes : \E n2 \in 0..(MaxNodes - n1) :
          /\ de_file \in FileContents(n1, Keys, AuditLeafValues)
          /\ en_file \in FileContents(n2, Keys, AuditLeafValues)
    /\ ccIdle
    /\ fnIdle
    /\ a_pc = "start" /\ de_error = FALSE /\ en_error = FALSE
    /\ de_found = <<>> /\ de_missing = <<>> /\ en_found = <<>> /\ en_missing = <<>>
    /\ both_found = {} /\ a_only_de = {} /\ a_only_en = {} /\ both_missing = {}

\* line 85
CheckDe ==
    /\ a_pc = "start"
    /\ LET r == check_translation_file(de_file)
       IN  /\ de_found' = r.found_keys
           /\ de_missing' = r.missing_keys
           /\ de_error' = r.error
    /\ a_pc' = "de_done"
    /\ UNCHANGED <<en_error, en_found, en_missing, both_found, a_only_de, a_only_en,
                   both_missing>>
    /\ UNCHANGED <<ccVars, fnVars>>

\* line 88
CheckEn ==
    /\ a_pc = "de_done"
    /\ LET r == check_translation_file(en_file)
       IN  /\ en_found' = r.found_keys
           /\ en_missing' = r.missing_keys
           /\ en_error' = r.error
    /\ a_pc' = "en_done"
    /\ UNCHANGED <<de_error, de_found, de_missing, both_found, a_only_de, a_only_en,
                   both_missing>>
    /\ UNCHANGED <<ccVars, fnVars>>

\* lines 90-118
Gesamtuebersicht ==
    /\ a_pc = "en_done"
    /\ both_found' = ToSet(de_found) \cap ToSet(en_found)
    /\ a_only_de' = ToSet(de_found) \ ToSet(en_found)
    /\ a_only_en' = ToSet(en_found) \ ToSet(de_found)
    /\ both_missing' = ToSet(de_missing) \cap ToSet(en_missing)
    /\ a_pc' = "done"
    /\ UNCHANGED <<de_error, en_error, de_found, de_missing, en_found, en_missing>>
    /\ UNCHANGED <<ccVars, fnVars>>

NextAudit ==
    \/ CheckDe
    \/ CheckEn
    \/ Gesamtuebersicht

SpecAudit == InitAudit /\ [][NextAudit]_vars

(***************************************************************************)
(* The functions applied to one catalog: get_all_keys,                     *)
(* check_duplicate_keys, check_empty_values, then get_nested_value on one  *)
(* of the key paths get_all_keys produced.                                 *)
(***************************************************************************)
InitFn ==
    /\ de_file = None /\ en_file = None
    /\ ccIdle
    /\ auditIdle
    /\ f_pc = "start"
    /\ \E n \in 0..MaxTreeNodes : tree \in Catalogs(n, Keys, LeafValues)
    /\ keys = <<>> /\ duplicates = <<>> /\ empty_values = <<>>
    /\ key_index = 0 /\ value = None

ApplyGetAllKeys ==
    /\ f_pc = "start"
    /\ keys' = get_all_keys(tree, <<>>)
    /\ f_pc' = "keys"
    /\ UNCHANGED <<tree, duplicates, empty_values, key_index, value>>
    /\ UNCHANGED <<ccVars, auditVars>>

ApplyCheckDuplicateKeys ==
    /\ f_pc = "keys"
    /\ duplicates' = check_duplicate_keys(tree, <<>>, NewFoundKeys).duplicates
    /\ f_pc' = "duplicates"
    /\ UNCHANGED <<tree, keys, empty_values, key_index, value>>
    /\ UNCHANGED <<ccVars, auditVars>>

ApplyCheckEmptyValues ==
    /\ f_pc = "duplicates"
    /\ empty_values' = check_empty_values(tree, <<>>)
    /\ f_pc' = "empty_values"
    /\ UNCHANGED <<tree, keys, duplicates, key_index, value>>
    /\ UNCHANGED <<ccVars, auditVars>>

ApplyGetNestedValue ==
    /\ f_pc = "empty_values"
    /\ \E i \in DOMAIN keys :
          /\ key_index' = i
          /\ value' = get_nested_value(tree, keys[i])
    /\ f_pc' = "resolved"
    /\ UNCHANGED <<tree, keys, duplicates, empty_values>>
    /\ UNCHANGED <<ccVars, auditVars>>

NextFn ==
    \/ ApplyGetAllKeys
    \/ ApplyCheckDuplicateKeys
    \/ ApplyCheckEmptyValues
    \/ ApplyGetNestedValue

SpecFn == InitFn /\ [][NextFn]_vars

(***************************************************************************)
(* Direct traversal of a catalog, used to state the properties: a node is  *)
(* addressed by the sequence of keys leading to it from the root.          *)
(***************************************************************************)
RECURSIVE Addrs(_, _)
\* the addresses of all nodes below base, in document order
Addrs(items, base) ==
    IF items = <<>> THEN <<>>
    ELSE LET a == Append(base, Head(items).k)
         IN  <<a>>
             \o (IF Head(items).val.t = "dict" THEN Addrs(Head(items).val.v, a) ELSE <<>>)
             \o Addrs(Tail(items), base)

RECURSIVE ValueAt(_, _)
\* the value of the node at address addr
ValueAt(d, addr) ==
    IF addr = <<>> THEN d
    ELSE ValueAt(d.v[CHOOSE i \in DOMAIN d.v : d.v[i].k = Head(addr)].val, Tail(addr))

RECURSIVE PathOf(_)
\* the dotted key path of the node at address addr
PathOf(addr) ==
    IF addr = <<>> THEN <<>>
    ELSE LET front == PathOf(SubSeq(addr, 1, Len(addr) - 1))
         IN  IF front = <<>> THEN addr[Len(addr)]
             ELSE front \o <<".">> \o addr[Len(addr)]

NodeAddrs(d) == Addrs(d.v, <<>>)

\* a string of whitespace only, the empty string included
IsBlank(val) == val.t = "str" /\ \A i \in DOMAIN val.v : val.v[i] = " "

RECURSIVE NoRepeatedKeys(_)
\* no mapping holds the same key twice at one level
NoRepeatedKeys(d) ==
    d.t = "dict" =>
        /\ \A i, j \in DOMAIN d.v : d.v[i].k = d.v[j].k => i = j
        /\ \A i \in DOMAIN d.v : NoRepeatedKeys(d.v[i].val)

RECURSIVE Resolvable(_, _)
\* every segment is present in a mapping at its level
Resolvable(d, segs) ==
    \/ segs = <<>>
    \/ /\ d.t = "dict"
       /\ \E i \in DOMAIN d.v : d.v[i].k = Head(segs)
       /\ Resolvable(d.v[CHOOSE i \in DOMAIN d.v : d.v[i].k = Head(segs)].val, Tail(segs))

Loaded == de_file # Unreadable /\ en_file # Unreadable

(***************************************************************************)
(* Properties.                                                             *)
(***************************************************************************)

\* C1: once the structural diff has run, common_keys, only_de and only_en are
\* pairwise disjoint, their union is the union of the key-path sets of the
\* two catalogs, and the three counts add up to the size of that union.
C1_Partition ==
    pc \in { "diff", "empty" } \/ (pc \in { "returned", "exited" } /\ Loaded) =>
        LET KA == ToSet(get_all_keys(de_data, <<>>))
            KB == ToSet(get_all_keys(en_data, <<>>))
        IN  /\ common_keys \cap only_de = {}
            /\ common_keys \cap only_en = {}
            /\ only_de \cap only_en = {}
            /\ common_keys \cup only_de \cup only_en = KA \cup KB
            /\ Cardinality(common_keys) + Cardinality(only_de) + Cardinality(only_en)
                 = Cardinality(KA \cup KB)

\* C1 witness: a run whose diff has common keys and keys exclusive to each side
C1_Witness ==
    pc = "diff" /\ common_keys # {} /\ only_de # {} /\ only_en # {}

\* C2 as stated: the verdict is "pass" only if every finding list is empty,
\* the missing required keys of each locale included.
C2_Original ==
    pc \in { "returned", "exited" } /\ verdict = "pass" =>
        /\ de_duplicates = <<>> /\ en_duplicates = <<>>
        /\ only_de = {} /\ only_en = {}
        /\ de_empty = <<>> /\ en_empty = <<>>
        /\ check_translation_file(de_file).missing_keys = <<>>
        /\ check_translation_file(en_file).missing_keys = <<>>

\* C2 amended: the verdict of a run that loaded both catalogs is "pass" exactly
\* when the duplicate lists, the locale-exclusive key sets and the empty-value
\* lists of both locales are all empty, and "fail" otherwise; the required-key
\* audit does not enter the verdict.
C2_Verdict ==
    pc \in { "returned", "exited" } /\ Loaded =>
        /\ verdict \in { "pass", "fail" }
        /\ verdict = "pass" <=>
              /\ de_duplicates = <<>> /\ en_duplicates = <<>>
              /\ only_de = {} /\ only_en = {}
              /\ de_empty = <<>> /\ en_empty = <<>>

\* C2 witness: one locale-exclusive key and one empty value, verdict fail
C2_Witness ==
    /\ pc = "returned" /\ verdict = "fail"
    /\ Cardinality(only_de) = 1 /\ only_en = {}
    /\ Len(de_empty) = 1 /\ en_empty = <<>>
    /\ de_duplicates = <<>> /\ en_duplicates = <<>>

\* C3: when both catalogs load, the process ends with a non-zero exit code if
\* the verdict is "fail" and with zero if it is "pass".
C3_ExitFollowsVerdict ==
    pc = "exited" /\ Loaded =>
        /\ verdict = "fail" => exit_code # 0
        /\ verdict = "pass" => exit_code = 0

\* C4: if either file cannot be read or parsed, load_translations prints its
\* diagnostic and returns no catalog, and main returns at once: no check runs,
\* nothing but the header and the diagnostic is reported, no verdict is given.
C4_EarlyTermination ==
    ~Loaded /\ pc # "start" =>
        /\ pc \in { "returned", "exited" }
        /\ report = <<"header", "load_error">>
        /\ de_data = None /\ en_data = None
        /\ de_keys = {} /\ en_keys = {}
        /\ de_duplicates = <<>> /\ en_duplicates = <<>>
        /\ only_de = {} /\ only_en = {} /\ common_keys = {}
        /\ de_empty = <<>> /\ en_empty = <<>>
        /\ issues = <<>> /\ verdict = "none"

\* C4 witness: the German catalog is readable and not empty, the English one
\* is not readable, and main has returned
C4_Witness ==
    /\ pc = "returned"
    /\ de_file # Unreadable /\ de_file.v # <<>>
    /\ en_file = Unreadable

\* C5: a locale whose catalog fails to load gets no required key recorded as
\* missing, and no key is reported missing in both locales because of it.
C5_SkippedOnLoadFailure ==
    a_pc = "done" =>
        /\ de_error => de_missing = <<>>
        /\ en_error => en_missing = <<>>
        /\ de_error \/ en_error => both_missing = {}

\* C6: a required key is recorded as missing exactly when its resolution
\* fails (a segment is absent or the node reached is no mapping), else it is
\* recorded as found; every required key is in exactly one of the two lists.
C6_MissingIffUnresolvable ==
    a_pc \in { "de_done", "en_done", "done" } /\ ~de_error =>
        \A i \in DOMAIN required_keys :
            LET key == required_keys[i]
            IN  /\ Count(de_missing, key) = 1 <=> ~Resolvable(de_file, split(key))
                /\ Count(de_found, key) = 1 <=> Resolvable(de_file, split(key))
                /\ Count(de_found, key) + Count(de_missing, key) = 1

\* C7: resolving a key path that get_all_keys produced gives the value of the
\* node that produced it.
C7_RoundTrip ==
    f_pc = "resolved" => value = ValueAt(tree, NodeAddrs(tree)[key_index])

\* C8: a catalog in which no mapping holds a key twice at one level has no
\* duplicate findings.
C8_NoDuplicates ==
    f_pc \in { "duplicates", "empty_values", "resolved" } /\ NoRepeatedKeys(tree) =>
        duplicates = <<>>

\* C9: check_empty_values lists the key path of every leaf holding a blank
\* string, once per such leaf, and nothing else: no non-blank string, no
\* non-string leaf, no container.
C9_EmptyValues ==
    f_pc \in { "empty_values", "resolved" } =>
        LET addrs == NodeAddrs(tree)
            blank == { i \in DOMAIN addrs : IsBlank(ValueAt(tree, addrs[i])) }
        IN  /\ Len(empty_values) = Cardinality(blank)
            /\ \A i \in DOMAIN addrs :
                  Count(empty_values, PathOf(addrs[i]))
                    = Cardinality({ j \in blank : PathOf(addrs[j]) = PathOf(addrs[i]) })

\* C9 witness: a catalog with a whitespace-only leaf, a non-blank string and
\* a non-string leaf, of which exactly the first is listed
C9_Witness ==
    /\ f_pc = "empty_values"
    /\ Len(empty_values) = 1
    /\ \E i, j, h \in DOMAIN NodeAddrs(tree) :
          /\ ValueAt(tree, NodeAddrs(tree)[i]) = Str(<<" ">>)
          /\ ValueAt(tree, NodeAddrs(tree)[j]) = Str(<<"x">>)
          /\ ValueAt(tree, NodeAddrs(tree)[h]).t \in { "int", "none" }
          /\ empty_values[1] = PathOf(NodeAddrs(tree)[i])

\* the number of times path p is met again after its first occurrence
Repeats(d, p) ==
    LET n == Count(get_all_keys(d, <<>>), p) IN IF n > 0 THEN n - 1 ELSE 0

\* C10: each top-level call of check_duplicate_keys starts from an empty
\* table: the duplicates of a catalog are the key paths met again within the
\* walk of that catalog alone (whatever subtree they are met in), so a path
\* seen in the German catalog is no duplicate of the English one.
C10_TablePerTraversal ==
    /\ pc \in { "dup_de", "dup_en", "diff", "empty" } =>
          /\ \A p \in de_keys \cup en_keys : Count(de_duplicates, p) = Repeats(de_data, p)
          /\ ToSet(de_duplicates) \subseteq de_keys
    /\ pc \in { "dup_en", "diff", "empty" } =>
          /\ \A p \in de_keys \cup en_keys : Count(en_duplicates, p) = Repeats(en_data, p)
          /\ ToSet(en_duplicates) \subseteq en_keys

\* C10 witness: the English walk reports a path it met twice and does not
\* report a path it met once that the German walk had met before
C10_Witness ==
    /\ pc = "dup_en"
    /\ en_duplicates # <<>>
    /\ \E p \in de_keys \cap en_keys : Count(en_duplicates, p) = 0

====
